---- MODULE Spec2Model ----
(***************************************************************************)
(* The sensor ingestion and broadcast service of                           *)
(* src/code/esp32_bidirectional_processor.py (ESP32BidirectionalProcessor) *)
(* as a state machine: request threads run the Flask handlers              *)
(* receive_sensor_data, clear_data, get_latest_data and health_check over  *)
(* the shared fields request_count, statistics, latest_data, chart_data,   *)
(* sensor_data_log, predictions_log, the CSV file and data_lock.           *)
(* The dashboard clients of the SocketIO channel (handle_connect,          *)
(* handle_request_update, the events emitted to them) are the variables    *)
(* published and subs.  now is a logical clock: it ticks at each reading   *)
(* of datetime.now() that is stored.                                       *)
(*                                                                         *)
(* Numbers.  A JSON number of a payload is written in tenths (7 is 0.7).   *)
(* A float held by the program is an integer numerator over Unit = 2^25    *)
(* (NaN is the numerator -1), so float32 rounding is computed exactly.     *)
(* A confidence is in hundredths.  A running mean is an exact fraction     *)
(* <<numerator, denominator>> in lowest terms (<<0, 0>> is NaN): the       *)
(* rounding of double arithmetic is left out.                              *)
(***************************************************************************)
EXTENDS Integers, Sequences, FiniteSets, TLC

\* ------------------------------------------------------------ bounds
\* Worker threads of the threaded server that serve requests in parallel.
NumThreads == 2
\* Requests the clients send in one run, over all threads.
MaxOps == 2
\* self.max_data_points (100 in the code), the capacity of every deque.
max_data_points == 2
\* Dashboard clients that may connect to the SocketIO channel.
NumSubs == 1

\* ------------------------------------------------------- configuration
sensor_names == <<"MQ2", "MQ3", "MQ4", "MQ135", "MQ6", "MQ7", "MQ8", "MQ9">>
num_sensors == Len(sensor_names)
save_to_file == TRUE
\* The MQ7 threshold of run_inference, 0.7, in tenths.
MQ7Threshold == 7
\* random.uniform(0.6, 0.9): the end points, in hundredths.
ConfLow == 60
ConfHigh == 90
\* Floats are numerators over 2^25.
Unit == 33554432
NaN == -1

Chan == 1..num_sensors

\* ------------------------------------------------------------ numbers
RECURSIVE Gcd(_, _)
Gcd(a, b) == IF b = 0 THEN a ELSE Gcd(b, a % b)

\* The fraction n/d in lowest terms; d = 0 is NaN.
Frac(n, d) == IF d = 0 THEN <<0, 0>>
              ELSE LET g == Gcd(n, d) IN IF g = 0 THEN <<0, 1>> ELSE <<n \div g, d \div g>>
FracNaN == <<0, 0>>
\* float(x) of a stored float32 as a fraction of Unit-numerators.
OfFloat(x) == IF x = NaN THEN FracNaN ELSE <<x, 1>>
IsNaNFrac(q) == q[2] = 0
\* q * k + x and q / k for an integer k >= 1, with NaN propagating.
FracMulAdd(q, k, x) ==
    IF IsNaNFrac(q) \/ IsNaNFrac(x) THEN FracNaN
    ELSE Frac(q[1] * k * x[2] + x[1] * q[2], q[2] * x[2])
FracDiv(q, k) == IF IsNaNFrac(q) THEN FracNaN ELSE Frac(q[1], q[2] * k)

\* The nearest integer to a / b (b > 0), ties to even.
RoundHalfEven(a, b) ==
    LET q == a \div b
        r == a % b
    IN  IF 2 * r < b THEN q
        ELSE IF 2 * r > b THEN q + 1
        ELSE IF q % 2 = 0 THEN q ELSE q + 1

\* np.float32 of the JSON number d/10, for d = 0 or 0.25 <= d/10 < 1: the
\* significand has 24 bits, so the spacing of float32 is 2^-24 in [0.5, 1)
\* (2 numerator steps) and 2^-25 in [0.25, 0.5) (1 step).
F32(d) ==
    LET ulp == IF 2 * d >= 10 THEN 2 ELSE 1
    IN  ulp * RoundHalfEven(d * Unit, 10 * ulp)

\* ------------------------------------------------------------ payloads
\* An element of the JSON list "sensors".
Num(d) == [k |-> "num", v |-> d, n |-> 0]
NaNElem == [k |-> "nan", v |-> 0, n |-> 0]
StrElem == [k |-> "str", v |-> 0, n |-> 0]
\* A nested list of n copies of the number d/10.
ListElem(d, n) == [k |-> "list", v |-> d, n |-> n]

\* The body of a request: kind "null" (no or empty JSON value), "number" (a
\* non-zero JSON number), "nokey" (an object without "sensors"), "nonlist"
\* ("sensors" is not a list), "list" (an object with the list elems).
Body(kind, elems) == [kind |-> kind, elems |-> elems]
\* A list of num_sensors numbers: MQ2 = a/10, MQ7 = b/10, the others 0.
Vec(a, b) == [i \in Chan |-> IF i = 1 THEN Num(a) ELSE IF i = 6 THEN Num(b) ELSE Num(0)]
SetAt(s, i, e) == [s EXCEPT ![i] = e]

\* np.array(sensor_values, dtype=np.float32): ok is FALSE for the ValueError
\* or TypeError of line 202; data[i] is element i of a 1-d array and the first
\* entry of row i of a 2-d array (cols entries per row).
np_array(elems) ==
    LET scalar(e) == e.k \in {"num", "nan"}
        conv(e) == IF e.k = "nan" THEN NaN ELSE F32(e.v)
        bad == [ok |-> FALSE, ndim |-> 0, cols |-> 0, data |-> <<>>]
    IN  IF \A i \in DOMAIN elems : scalar(elems[i])
        THEN [ok |-> TRUE, ndim |-> 1, cols |-> 0,
              data |-> [i \in DOMAIN elems |-> conv(elems[i])]]
        ELSE IF /\ \A i \in DOMAIN elems : elems[i].k = "list"
                /\ \A i, j \in DOMAIN elems : elems[i].n = elems[j].n
        THEN [ok |-> TRUE, ndim |-> 2, cols |-> elems[1].n,
              data |-> [i \in DOMAIN elems |-> IF elems[1].n = 0 THEN NaN ELSE F32(elems[i].v)]]
        ELSE bad

\* float(sensor_data[i]) raises TypeError unless the entry holds one number.
FloatOk(sensor_data) == sensor_data.ndim = 1 \/ sensor_data.cols = 1

\* The class run_inference derives from MQ7; None (-1) when reading it raises
\* (IndexError for a short array, TypeError for a row of several numbers).
NoPrediction == -1
mq7_index == CHOOSE i \in Chan : sensor_names[i] = "MQ7"
run_inference_label(sensor_data) ==
    IF mq7_index \notin DOMAIN sensor_data.data \/ ~FloatOk(sensor_data) THEN NoPrediction
    ELSE LET mq7_value == sensor_data.data[mq7_index]
         IN  IF mq7_value # NaN /\ 10 * mq7_value >= MQ7Threshold * Unit THEN 1 ELSE 0

interpret_prediction(prediction) ==
    CASE prediction = 0 -> "FRESH"
      [] prediction = 1 -> "DEGRADED"
      [] prediction = 2 -> "ERROR"
      [] OTHER -> "UNKNOWN"

\* early_status without the length check of line 194.
early_status_no_length(body) ==
    CASE body.kind = "null" -> 400
      [] body.kind = "number" -> 500
      [] body.kind = "nokey" -> 400
      [] body.kind = "nonlist" -> 400
      [] OTHER ->
            IF ~np_array(body.elems).ok THEN 400
            ELSE IF run_inference_label(np_array(body.elems)) = NoPrediction THEN 500
            ELSE 0

\* early_status without the check of lines 208-209 that run_inference
\* returned a prediction.
early_status_no_none_check(body) ==
    CASE body.kind = "null" -> 400
      [] body.kind = "number" -> 500
      [] body.kind = "nokey" -> 400
      [] body.kind = "nonlist" -> 400
      [] OTHER ->
            IF Len(body.elems) # num_sensors THEN 400
            ELSE IF ~np_array(body.elems).ok THEN 400
            ELSE 0

\* The status receive_sensor_data returns before it touches shared state:
\* 400 or 500 for a rejected body, 0 when the body goes on to be recorded.
early_status(body) ==
    CASE body.kind = "null" -> 400
      [] body.kind = "number" -> 500
      [] body.kind = "nokey" -> 400
      [] body.kind = "nonlist" -> 400
      [] OTHER ->
            IF Len(body.elems) # num_sensors THEN 400
            ELSE IF ~np_array(body.elems).ok THEN 400
            ELSE IF run_inference_label(np_array(body.elems)) = NoPrediction THEN 500
            ELSE 0

\* The bodies the clients of this model send.
ValidBodies == {Body("list", Vec(3, 5)), Body("list", Vec(5, 9))}
\* MQ7 = 0.7, the threshold itself.
EdgeBodies == {Body("list", Vec(9, 7))}
BadBodies ==
    { Body("null", <<>>), Body("number", <<>>), Body("nokey", <<>>), Body("nonlist", <<>>),
      Body("list", SubSeq(Vec(3, 5), 1, 5)),
      Body("list", Append(Vec(3, 5), Num(3))),
      Body("list", SetAt(Vec(3, 5), 2, StrElem)),
      Body("list", SetAt(Vec(3, 5), 2, ListElem(3, 2))),
      Body("list", SetAt(Vec(3, 5), 6, NaNElem)),
      Body("list", [i \in Chan |-> ListElem(3, 1)]),
      Body("list", [i \in Chan |-> ListElem(3, 2)]) }
NoBody == Body("none", <<>>)
\* random.uniform(60, 90): percent where a fraction is meant.
confidences_percent == {100 * ConfLow, 100 * ConfHigh}
\* The confidences run_inference draws: the end points of the interval.
Confidences == {ConfLow, ConfHigh}

\* ------------------------------------------------------------- state
VARIABLES
    request_count,    \* self.request_count
    statistics,       \* the statistics dicts ever allocated; self.statistics is the last
    latest_data,      \* self.latest_data
    chart_data,       \* self.chart_data: the deques
    sensor_data_log,  \* self.sensor_data_log
    predictions_log,  \* self.predictions_log
    csv_rows,         \* the data rows of the CSV file
    data_lock,        \* the thread that holds self.data_lock, 0 when free
    now,              \* the clock datetime.now() reads
    th,               \* the request threads: position and locals of the handler each runs
                      \* (recorded and entry are history fields: whether and as which
                      \* entry of sensor_data_log the request was recorded)
    budget,           \* requests the clients have still to send
    history,          \* history variable: timestamp and confidence of every recorded reading
    clear_marks,      \* history variable: Len(sensor_data_log) at every Clear
    published,        \* history variable: every call of emit, in order
    subs              \* the dashboard clients: connection state, packet queue, events received

vars == <<request_count, statistics, latest_data, chart_data, sensor_data_log,
          predictions_log, csv_rows, data_lock, now, th, budget, history, clear_marks,
          published, subs>>
\* The fields of the processor the handlers share.
shared == <<request_count, statistics, latest_data, chart_data, sensor_data_log,
            predictions_log, csv_rows>>

\* The SocketIO side: what was emitted and what each client holds.
channel == <<published, subs>>

Threads == 1..NumThreads
Subscribers == 1..NumSubs

Zero == <<0, 1>>
InitStatistics ==
    [total_requests |-> 0, fresh_count |-> 0, degraded_count |-> 0, error_count |-> 0,
     avg_confidence |-> Zero, avg_sensors |-> [i \in Chan |-> Zero]]
PlaceholderLatest(ts) ==
    [sensors |-> [i \in Chan |-> 0], prediction |-> 0, confidence |-> 0,
     interpretation |-> "UNKNOWN", timestamp |-> ts]
EmptyChart ==
    [timestamps |-> <<>>, sensor_values |-> [i \in Chan |-> <<>>],
     predictions |-> <<>>, confidences |-> <<>>]

NoArray == [ok |-> FALSE, ndim |-> 0, cols |-> 0, data |-> <<>>]
\* No snapshot: ref 0 names no statistics dict.
NoSnap == [latest_data |-> PlaceholderLatest(0), stats_ref |-> 0,
           stats_seen |-> InitStatistics, chart_data |-> EmptyChart]
NoResp == [op |-> "none", code |-> 0, request_id |-> 0, prediction |-> NoPrediction,
           confidence |-> 0, total_requests |-> 0]
IdleThread ==
    [pc |-> "idle", body |-> NoBody, sensor_data |-> NoArray, prediction |-> NoPrediction,
     confidence |-> 0, tmp |-> 0, snap |-> NoSnap, recorded |-> FALSE, entry |-> 0,
     broadcasts |-> 0, wrote |-> FALSE, row |-> 0, resp |-> NoResp]
\* A client that is not connected. joined counts the emits made before it
\* connected; inbox is the packet queue the server keeps for it.
OffSubscriber ==
    [pc |-> "off", snap |-> NoSnap, joined |-> 0, inbox |-> <<>>, received |-> <<>>]

Init ==
    /\ request_count = 0
    /\ statistics = <<InitStatistics>>
    /\ latest_data = PlaceholderLatest(0)
    /\ chart_data = EmptyChart
    /\ sensor_data_log = <<>>
    /\ predictions_log = <<>>
    /\ csv_rows = <<>>
    /\ data_lock = 0
    /\ now = 0
    /\ th = [t \in Threads |-> IdleThread]
    /\ budget = MaxOps
    /\ history = <<>>
    /\ clear_marks = <<>>
    /\ published = <<>>
    /\ subs = [s \in Subscribers |-> OffSubscriber]

\* ----------------------------------------------------------- helpers
\* self.statistics: the dict the attribute refers to now.
CurStats == statistics[Len(statistics)]

\* A deque that never evicts.
deque_append_unbounded(q, x) == Append(q, x)

\* deque.appendleft(x): the new entry goes to the front.
deque_appendleft(q, x) ==
    IF Len(q) >= max_data_points THEN <<x>> \o SubSeq(q, 1, Len(q) - 1) ELSE <<x>> \o q

\* A buffer that refuses a new entry when it is full.
deque_append_if_room(q, x) ==
    IF Len(q) >= max_data_points THEN q ELSE Append(q, x)

\* deque(maxlen=max_data_points).append(x)
deque_append(q, x) ==
    IF Len(q) >= max_data_points THEN Tail(q) \o <<x>> ELSE Append(q, x)

update_statistics(st, prediction, confidence, sensor_data, rc) ==
    LET prev_total == IF st.total_requests - 1 > 0 THEN st.total_requests - 1 ELSE 0
        confidence_float == <<confidence, 1>>
        counted == [st EXCEPT
            !.fresh_count = IF prediction = 0 THEN @ + 1 ELSE @,
            !.degraded_count = IF prediction = 1 THEN @ + 1 ELSE @,
            !.error_count = IF prediction = 2 THEN @ + 1 ELSE @]
        avg(old, x) == IF prev_total > 0
                       THEN FracDiv(FracMulAdd(old, prev_total, x), prev_total + 1)
                       ELSE x
    IN  [counted EXCEPT
            !.avg_confidence = avg(@, confidence_float),
            !.avg_sensors = [i \in Chan |-> avg(@[i], OfFloat(sensor_data.data[i]))],
            !.total_requests = rc]

\* prepare_broadcast_data called before the update of the critical section:
\* it reads the fields as they are when the step begins.
prepare_broadcast_data_before(latest, ref, stats, chart) ==
    [latest_data |-> latest_data, stats_ref |-> Len(statistics), stats_seen |-> CurStats,
     chart_data |-> chart_data]

\* prepare_broadcast_data: latest_data and statistics are the dicts themselves
\* (stats_ref names the statistics dict), the chart series are copied.
\* stats_seen is a history field: the statistics as they were at the capture.
prepare_broadcast_data(latest, ref, stats, chart) ==
    [latest_data |-> latest, stats_ref |-> ref, stats_seen |-> stats, chart_data |-> chart]

\* What serialising a snapshot reads from its statistics dict now.
StatsOf(snap) == statistics[snap.stats_ref]

\* A queue that hands out the newest packet first.
enqueue_front(q, ev) == <<ev>> \o q

\* The packet queue of a client: queue.put of the packet.
enqueue(q, ev) == Append(q, ev)

InRoom(sb, s) == sb[s].pc # "off"
\* socketio.emit(name, data) as call number seq: the snapshot is serialised
\* now and queued for the client `to`, for every connected client when to is
\* 0; nothing is queued when the call raises (ok is FALSE). stale tells
\* whether the statistics serialised differ from those captured.
socketio_emit(sb, name, to, snap, seq, ok) ==
    [s \in Subscribers |->
        IF ok /\ InRoom(sb, s) /\ to \in {0, s}
        THEN [sb[s] EXCEPT !.inbox = enqueue(@, [event |-> name, seq |-> seq,
                                                  stale |-> StatsOf(snap) # snap.stats_seen])]
        ELSE sb[s]]
\* The record of that call.
Emitted(name, to, ok) == [event |-> name, to |-> to, ok |-> ok]

\* ----------------------------------------------------------- actions
\* The listener hands a request to the free thread of the lowest number.
Idle(t) ==
    /\ th[t].pc = "idle"
    /\ budget > 0
    /\ \A u \in Threads : u < t => th[u].pc # "idle"
Begin(t, pc, body) == [IdleThread EXCEPT !.pc = pc, !.body = body]
\* The handler returns resp: its locals die, save those the properties read.
Finish(l, resp) ==
    [IdleThread EXCEPT !.body = l.body, !.recorded = l.recorded, !.entry = l.entry,
                       !.broadcasts = l.broadcasts, !.wrote = l.wrote, !.row = l.row,
                       !.resp = resp]

\* receive_sensor_data, lines 181-212: parse, validate, convert, classify,
\* and load self.request_count for the increment. Up to the load nothing
\* shared is read or written; a rejected body is answered before it.
Submit(t, body, conf) ==
    /\ Idle(t)
    /\ budget' = budget - 1
    /\ LET status == early_status(body)
           sensor_data == np_array(body.elems)
       IN  th' = [th EXCEPT ![t] =
                IF status # 0
                THEN Finish(Begin(t, "idle", body), [NoResp EXCEPT !.op = "sensor", !.code = status])
                ELSE [Begin(t, "incr_store", body) EXCEPT
                        !.sensor_data = sensor_data,
                        !.prediction = run_inference_label(sensor_data),
                        !.confidence = conf,
                        !.tmp = request_count]]
    /\ UNCHANGED <<shared, data_lock, now, history, clear_marks, channel>>

\* Line 212, self.request_count += 1, is a load and a store with no lock held:
\* this is the store.
IncrStore(t) ==
    /\ th[t].pc = "incr_store"
    /\ request_count' = th[t].tmp + 1
    /\ th' = [th EXCEPT ![t].pc = "lock"]
    /\ UNCHANGED <<statistics, latest_data, chart_data, sensor_data_log, predictions_log,
                   csv_rows, data_lock, now, budget, history, clear_marks, channel>>

\* Line 214: with self.data_lock.
Acquire(t) ==
    /\ th[t].pc = "lock"
    /\ data_lock = 0
    /\ data_lock' = t
    /\ th' = [th EXCEPT ![t].pc = "record"]
    /\ UNCHANGED <<shared, now, budget, history, clear_marks, channel>>

\* A with block that does not end before the broadcast: the lock stays held.
with_exit_late(t) == t

\* The end of a with self.data_lock block entered by thread t: the lock is free.
with_exit(t) == 0

\* Lines 215-245, the body of the with block, and the release of the lock.
Record(t) ==
    /\ th[t].pc = "record"
    /\ data_lock = t
    /\ LET l == th[t]
           ts == now + 1
           new_stats == update_statistics(CurStats, l.prediction, l.confidence,
                                          l.sensor_data, request_count)
           new_latest == [sensors |-> [i \in Chan |-> l.sensor_data.data[i]],
                          prediction |-> l.prediction, confidence |-> l.confidence,
                          interpretation |-> interpret_prediction(l.prediction),
                          timestamp |-> ts]
           new_chart ==
               [timestamps |-> deque_append(chart_data.timestamps, ts),
                sensor_values |-> [i \in Chan |->
                    deque_append(chart_data.sensor_values[i], l.sensor_data.data[i])],
                predictions |-> deque_append(chart_data.predictions, l.prediction),
                confidences |-> deque_append(chart_data.confidences, l.confidence)]
       IN  /\ now' = ts
           /\ statistics' = [statistics EXCEPT ![Len(statistics)] = new_stats]
           /\ sensor_data_log' = Append(sensor_data_log, l.sensor_data)
           /\ predictions_log' = Append(predictions_log, l.prediction)
           /\ latest_data' = new_latest
           /\ chart_data' = new_chart
           /\ history' = Append(history, [timestamp |-> ts, confidence |-> l.confidence])
           /\ th' = [th EXCEPT ![t].pc = "broadcast", ![t].recorded = TRUE,
                               ![t].entry = Len(sensor_data_log) + 1,
                               ![t].snap = prepare_broadcast_data(
                                   new_latest, Len(statistics), new_stats, new_chart)]
    /\ data_lock' = with_exit(t)
    /\ UNCHANGED <<request_count, csv_rows, budget, clear_marks, channel>>

\* broadcast_data_to_clients, lines 387-390: socketio.emit serialises the
\* snapshot now, or raises, which is caught and printed.
Broadcast(t, emit_ok) ==
    /\ th[t].pc = "broadcast"
    /\ th' = [th EXCEPT ![t].pc = "persist", ![t].broadcasts = @ + 1]
    /\ published' = Append(published, Emitted("data_update", 0, emit_ok))
    /\ subs' = socketio_emit(subs, "data_update", 0, th[t].snap, Len(published) + 1, emit_ok)
    /\ UNCHANGED <<shared, data_lock, now, budget, history, clear_marks>>

\* display_sensor_data formats each entry with ">10.6f", which raises
\* TypeError for a row of a 2-d array: the handler's except answers 500.
display_ok(sensor_data) == sensor_data.ndim = 1

\* open(self.csv_filename, 'w') and the write of one row: the file is cut.
csv_write_truncate(rows, row) == <<row>>

\* A writer that puts the new row before the rows of the file.
csv_write_front(rows, row) == <<row>> \o rows

\* save_data_to_csv, lines 486-489: open(self.csv_filename, 'a') and
\* writer.writerow(row); the row without its two time columns.
csv_write(rows, row) == Append(rows, row)
csv_row(sensor_data, prediction, confidence) ==
    [sensors |-> sensor_data.data, prediction |-> prediction, confidence |-> confidence]

\* Lines 250-255: display_sensor_data, then save_data_to_csv, whose write
\* appends one row or raises, which is caught and printed.
Persist(t, write_ok) ==
    /\ th[t].pc = "persist"
    /\ LET l == th[t]
       IN  IF ~display_ok(l.sensor_data)
           THEN /\ th' = [th EXCEPT ![t] =
                        Finish(l, [NoResp EXCEPT !.op = "sensor", !.code = 500])]
                /\ UNCHANGED csv_rows
           ELSE /\ th' = [th EXCEPT ![t].pc = "respond",
                                    ![t].wrote = save_to_file /\ write_ok,
                                    ![t].row = IF save_to_file /\ write_ok
                                               THEN Len(csv_rows) + 1 ELSE 0]
                /\ csv_rows' = IF save_to_file /\ write_ok
                               THEN csv_write(csv_rows, csv_row(l.sensor_data, l.prediction,
                                                                l.confidence))
                               ELSE csv_rows
    /\ UNCHANGED <<request_count, statistics, latest_data, chart_data, sensor_data_log,
                   predictions_log, data_lock, now, budget, history, clear_marks, channel>>

\* A response that reads its label and confidence from self.latest_data.
RespondFromLatest(t) ==
    /\ th[t].pc = "respond"
    /\ th' = [th EXCEPT ![t] =
            Finish(th[t], [NoResp EXCEPT !.op = "sensor", !.code = 200,
                                         !.request_id = request_count,
                                         !.prediction = latest_data.prediction,
                                         !.confidence = latest_data.confidence])]
    /\ UNCHANGED <<shared, data_lock, now, budget, history, clear_marks, channel>>

\* Lines 257-269: the response reads self.request_count for request_id.
Respond(t) ==
    /\ th[t].pc = "respond"
    /\ th' = [th EXCEPT ![t] =
            Finish(th[t], [NoResp EXCEPT !.op = "sensor", !.code = 200,
                                         !.request_id = request_count,
                                         !.prediction = th[t].prediction,
                                         !.confidence = th[t].confidence])]
    /\ UNCHANGED <<shared, data_lock, now, budget, history, clear_marks, channel>>

\* clear_data, line 305: with self.data_lock.
ClearAcquire(t) ==
    /\ Idle(t)
    /\ data_lock = 0
    /\ data_lock' = t
    /\ budget' = budget - 1
    /\ th' = [th EXCEPT ![t] = Begin(t, "clear", NoBody)]
    /\ UNCHANGED <<shared, now, history, clear_marks, channel>>

\* A reset that zeroes total_requests too.
cleared_statistics_zero(rc) == InitStatistics

\* The statistics dict clear_data builds, lines 313-320.
cleared_statistics(rc) == [InitStatistics EXCEPT !.total_requests = rc]

\* Lines 306-331, the body of the with block, and the release of the lock.
ClearBody(t) ==
    /\ th[t].pc = "clear"
    /\ data_lock = t
    /\ LET ts == now + 1
           new_stats == cleared_statistics(request_count)
       IN  /\ now' = ts
           /\ chart_data' = EmptyChart
           /\ statistics' = Append(statistics, new_stats)
           /\ latest_data' = PlaceholderLatest(ts)
           /\ th' = [th EXCEPT ![t].pc = "clear_broadcast",
                               ![t].snap = prepare_broadcast_data(
                                   PlaceholderLatest(ts), Len(statistics) + 1, new_stats,
                                   EmptyChart)]
    /\ clear_marks' = Append(clear_marks, Len(sensor_data_log))
    /\ data_lock' = with_exit(t)
    /\ UNCHANGED <<request_count, sensor_data_log, predictions_log, csv_rows, budget, history,
                   channel>>

\* Lines 334-336: broadcast the snapshot and answer 200.
ClearBroadcast(t, emit_ok) ==
    /\ th[t].pc = "clear_broadcast"
    /\ th' = [th EXCEPT ![t] =
            Finish([th[t] EXCEPT !.broadcasts = @ + 1],
                   [NoResp EXCEPT !.op = "clear", !.code = 200])]
    /\ published' = Append(published, Emitted("data_update", 0, emit_ok))
    /\ subs' = socketio_emit(subs, "data_update", 0, th[t].snap, Len(published) + 1, emit_ok)
    /\ UNCHANGED <<shared, data_lock, now, budget, history, clear_marks>>

\* get_latest_data, lines 280-281: the snapshot is taken with the lock held
\* (the block only reads, so taking the lock, reading and releasing is one step).
LatestCapture(t) ==
    /\ Idle(t)
    /\ data_lock = 0
    /\ budget' = budget - 1
    /\ th' = [th EXCEPT ![t] = [Begin(t, "latest_respond", NoBody) EXCEPT
                                    !.snap = prepare_broadcast_data(
                                        latest_data, Len(statistics), CurStats, chart_data)]]
    /\ UNCHANGED <<shared, data_lock, now, history, clear_marks, channel>>

\* Lines 283-286: jsonify serialises the snapshot, with no lock held.
LatestRespond(t) ==
    /\ th[t].pc = "latest_respond"
    /\ th' = [th EXCEPT ![t] =
            Finish(th[t], [NoResp EXCEPT !.op = "latest", !.code = 200])]
    /\ UNCHANGED <<shared, data_lock, now, budget, history, clear_marks, channel>>

\* health_check, lines 294-300: reads request_count with no lock.
Health(t) ==
    /\ Idle(t)
    /\ budget' = budget - 1
    /\ th' = [th EXCEPT ![t] =
            Finish(Begin(t, "idle", NoBody),
                   [NoResp EXCEPT !.op = "health", !.code = 200,
                                  !.total_requests = request_count])]
    /\ UNCHANGED <<shared, data_lock, now, history, clear_marks, channel>>

\* handle_connect, lines 341-348: the client is in the room of its namespace
\* when the handler runs; the snapshot is taken with the lock held (the block
\* only reads, so taking the lock, reading and releasing is one step).
Connect(s) ==
    /\ subs[s].pc = "off"
    /\ budget > 0
    /\ data_lock = 0
    /\ budget' = budget - 1
    /\ subs' = [subs EXCEPT ![s] = [OffSubscriber EXCEPT
                    !.pc = "priming", !.joined = Len(published),
                    !.snap = prepare_broadcast_data(
                                 latest_data, Len(statistics), CurStats, chart_data)]]
    /\ UNCHANGED <<shared, data_lock, now, th, history, clear_marks, published>>

\* Line 350: emit('initial_data', data), to the client that connected.
Prime(s, emit_ok) ==
    /\ subs[s].pc = "priming"
    /\ published' = Append(published, Emitted("initial_data", s, emit_ok))
    /\ subs' = socketio_emit([subs EXCEPT ![s].pc = "on", ![s].snap = NoSnap],
                             "initial_data", s, subs[s].snap, Len(published) + 1, emit_ok)
    /\ UNCHANGED <<shared, data_lock, now, th, budget, history, clear_marks>>

\* handle_request_update, lines 358-361: the snapshot, with the lock held.
RequestUpdate(s) ==
    /\ subs[s].pc = "on"
    /\ budget > 0
    /\ data_lock = 0
    /\ budget' = budget - 1
    /\ subs' = [subs EXCEPT ![s].pc = "updating",
                            ![s].snap = prepare_broadcast_data(
                                 latest_data, Len(statistics), CurStats, chart_data)]
    /\ UNCHANGED <<shared, data_lock, now, th, history, clear_marks, published>>

\* Line 363: emit('data_update', data), to the client that asked.
Update(s, emit_ok) ==
    /\ subs[s].pc = "updating"
    /\ published' = Append(published, Emitted("data_update", s, emit_ok))
    /\ subs' = socketio_emit([subs EXCEPT ![s].pc = "on", ![s].snap = NoSnap],
                             "data_update", s, subs[s].snap, Len(published) + 1, emit_ok)
    /\ UNCHANGED <<shared, data_lock, now, th, budget, history, clear_marks>>

\* The client takes the packet at the head of its queue.
Deliver(s) ==
    /\ subs[s].inbox # <<>>
    /\ subs' = [subs EXCEPT ![s].inbox = Tail(@),
                            ![s].received = Append(@, Head(subs[s].inbox))]
    /\ UNCHANGED <<shared, data_lock, now, th, budget, history, clear_marks, published>>

\* ------------------------------------------------------ specifications
\* One step of the service on the threads T, for request bodies from B,
\* confidences from C, outcomes of a file write from F and outcomes of an
\* emit from E (TRUE: it succeeds).
Step(T, B, C, F, E) ==
    \E t \in T :
        \/ \E body \in B, conf \in C : Submit(t, body, conf)
        \/ IncrStore(t)
        \/ Acquire(t)
        \/ Record(t)
        \/ \E emit_ok \in E : Broadcast(t, emit_ok)
        \/ \E write_ok \in F : Persist(t, write_ok)
        \/ Respond(t)
        \/ ClearAcquire(t)
        \/ ClearBody(t)
        \/ \E emit_ok \in E : ClearBroadcast(t, emit_ok)
        \/ LatestCapture(t)
        \/ LatestRespond(t)
        \/ Health(t)

\* Concurrent requests with well-formed bodies.
Next == Step(Threads, ValidBodies, Confidences, {TRUE}, {TRUE})
Spec == Init /\ [][Next]_vars

\* One client that sends its requests one after the other, two more of them.
SeqExtra == MaxOps + 2
InitSeq ==
    /\ request_count = 0
    /\ statistics = <<InitStatistics>>
    /\ latest_data = PlaceholderLatest(0)
    /\ chart_data = EmptyChart
    /\ sensor_data_log = <<>>
    /\ predictions_log = <<>>
    /\ csv_rows = <<>>
    /\ data_lock = 0
    /\ now = 0
    /\ th = [t \in Threads |-> IdleThread]
    /\ budget = SeqExtra
    /\ history = <<>>
    /\ clear_marks = <<>>
    /\ published = <<>>
    /\ subs = [s \in Subscribers |-> OffSubscriber]
NextSeq == Step({1}, ValidBodies, Confidences, {TRUE}, {TRUE})
SpecSeq == InitSeq /\ [][NextSeq]_vars

\* One client, every kind of body, file writes that may fail.
NextInputs == Step({1}, ValidBodies \cup EdgeBodies \cup BadBodies, {ConfLow}, BOOLEAN, BOOLEAN)
SpecInputs == Init /\ [][NextInputs]_vars

\* One step of the dashboard clients S and of the handlers that serve them.
ChannelStep(S, E) ==
    \E s \in S :
        \/ Connect(s)
        \/ \E emit_ok \in E : Prime(s, emit_ok)
        \/ RequestUpdate(s)
        \/ \E emit_ok \in E : Update(s, emit_ok)
        \/ Deliver(s)

\* One ingestion client and the dashboard clients, one request more; the
\* bodies are a reading and a list of one-element lists.
ChannelOps == MaxOps + 1
ChannelBodies == {Body("list", Vec(3, 5)), Body("list", [i \in Chan |-> ListElem(3, 1)])}
InitChannel ==
    /\ request_count = 0
    /\ statistics = <<InitStatistics>>
    /\ latest_data = PlaceholderLatest(0)
    /\ chart_data = EmptyChart
    /\ sensor_data_log = <<>>
    /\ predictions_log = <<>>
    /\ csv_rows = <<>>
    /\ data_lock = 0
    /\ now = 0
    /\ th = [t \in Threads |-> IdleThread]
    /\ budget = ChannelOps
    /\ history = <<>>
    /\ clear_marks = <<>>
    /\ published = <<>>
    /\ subs = [s \in Subscribers |-> OffSubscriber]
NextChannel ==
    \/ Step({1}, ChannelBodies, {ConfLow}, {TRUE}, BOOLEAN)
    \/ ChannelStep(Subscribers, BOOLEAN)
SpecChannel == InitChannel /\ [][NextChannel]_vars

\* The steps of a handler after its first: the thread that serves a request
\* keeps running it.
Continue(t) ==
    \/ IncrStore(t)
    \/ Acquire(t)
    \/ Record(t)
    \/ \E emit_ok \in BOOLEAN : Broadcast(t, emit_ok)
    \/ \E write_ok \in BOOLEAN : Persist(t, write_ok)
    \/ Respond(t)
    \/ ClearBody(t)
    \/ \E emit_ok \in BOOLEAN : ClearBroadcast(t, emit_ok)
    \/ LatestRespond(t)
\* SpecInputs with request threads that are scheduled fairly.
FairInputs == SpecInputs /\ \A t \in Threads : WF_vars(Continue(t))

\* -------------------------------------------------------- properties
AllIdle == \A t \in Threads : th[t].pc = "idle"
NoClearYet == clear_marks = <<>>
\* Readings recorded so far, and since the last Clear.
Recorded == Len(sensor_data_log)
LastClearMark == IF clear_marks = <<>> THEN 0 ELSE clear_marks[Len(clear_marks)]
SinceClear == Recorded - LastClearMark

RECURSIVE SumOf(_, _)
SumOf(f, n) == IF n = 0 THEN 0 ELSE f[n] + SumOf(f, n - 1)
\* The arithmetic mean of f[1..n], recomputed from scratch; NaN if any f[i] is.
MeanOf(f, n) ==
    IF \E i \in 1..n : f[i] = NaN THEN FracNaN ELSE Frac(SumOf(f, n), n)
ConfidenceAt == [j \in 1..Recorded |-> history[j].confidence]
ChannelAt(c) == [j \in 1..Recorded |-> sensor_data_log[j].data[c]]

\* C1: once every request has responded, request_count and
\* statistics['total_requests'] have each grown by one per accepted
\* submission, all of which are recorded by then.
C1_NoLostIncrement ==
    AllIdle => /\ request_count = Recorded
               /\ CurStats.total_requests = Recorded

\* C2: with no Clear so far and at least one reading recorded, avg_confidence
\* is the arithmetic mean of the recorded confidences and avg_sensors[c] the
\* arithmetic mean of the recorded values of channel c.
C2_RunningMeanIsMean ==
    (NoClearYet /\ Recorded >= 1) =>
        /\ CurStats.avg_confidence = MeanOf(ConfidenceAt, Recorded)
        /\ \A c \in Chan : CurStats.avg_sensors[c] = MeanOf(ChannelAt(c), Recorded)

\* C3: with no Clear, once the N accepted requests have completed,
\* total_requests is N and the three label counts add up to N.
C3_TotalsAfterN ==
    (AllIdle /\ NoClearYet) =>
        /\ CurStats.total_requests = Recorded
        /\ CurStats.fresh_count + CurStats.degraded_count + CurStats.error_count = Recorded

\* The chart series hold exactly the last n recorded readings, oldest first.
ChartHoldsLast(n) ==
    /\ Len(chart_data.timestamps) = n
    /\ Len(chart_data.predictions) = n
    /\ Len(chart_data.confidences) = n
    /\ \A c \in Chan : Len(chart_data.sensor_values[c]) = n
    /\ \A j \in 1..n :
         LET k == Recorded - n + j
         IN  /\ chart_data.timestamps[j] = history[k].timestamp
             /\ chart_data.predictions[j] = predictions_log[k]
             /\ chart_data.confidences[j] = history[k].confidence
             /\ \A c \in Chan : chart_data.sensor_values[c][j] = sensor_data_log[k].data[c]

\* C4 (as amended): in every state all chart series have the same length,
\* at most max_data_points, and hold in order the last readings recorded
\* since the last Clear: once more than max_data_points readings have been
\* recorded since then the length is max_data_points and the oldest entry of
\* every series is that of reading number (m - max_data_points + 1) of the m
\* recorded since the Clear.
C4_HistoryWindow ==
    ChartHoldsLast(IF SinceClear > max_data_points THEN max_data_points ELSE SinceClear)

C4_Witness ==
    /\ SinceClear > max_data_points
    /\ clear_marks # <<>>
    /\ chart_data.confidences[1] # chart_data.confidences[max_data_points]

\* C4 as stated: the same with the readings counted from startup, whatever
\* Clear did in between.
C4_AsStated ==
    ChartHoldsLast(IF Recorded > max_data_points THEN max_data_points ELSE
                   Len(chart_data.timestamps))

\* A thread that holds a snapshot it has captured and not yet sent.
HoldsSnapshot(t) == th[t].pc \in {"broadcast", "clear_broadcast", "latest_respond"}

\* C5: a captured snapshot does not change: what serialising it reads from
\* its statistics is what the statistics were at the capture.
C5_SnapshotImmutable ==
    \A t \in Threads : HoldsSnapshot(t) => StatsOf(th[t].snap) = th[t].snap.stats_seen

\* Thread t starts a request in this step.
Starts(t) == th[t].pc = "idle" /\ th'[t] # th[t]
WrongLength(body) == body.kind = "list" /\ Len(body.elems) # num_sensors
\* The step answers t's request with code and touches nothing shared: the
\* thread is idle again, so no record, broadcast or CSV step follows.
RejectedWith(t, code) ==
    /\ th'[t].pc = "idle"
    /\ th'[t].resp.code = code
    /\ ~th'[t].recorded
    /\ UNCHANGED shared

WellFormed(body) ==
    /\ body.kind = "list"
    /\ Len(body.elems) = num_sensors
    /\ \A i \in DOMAIN body.elems : body.elems[i].k = "num"

\* C7: every submission whose body is not well formed is answered 400 in
\* the step that receives it and changes nothing shared.
C7_MalformedRejected ==
    [][\A t \in Threads :
        (Starts(t) /\ th'[t].body.kind # "none" /\ ~WellFormed(th'[t].body))
            => RejectedWith(t, 400)]_vars

\* Thread t runs the body of clear_data in this step.
Clears(t) == th[t].pc = "clear" /\ th'[t].pc = "clear_broadcast"
ClearedButTotal(st) ==
    /\ st.fresh_count = 0 /\ st.degraded_count = 0 /\ st.error_count = 0
    /\ st.avg_confidence = Zero
    /\ \A c \in Chan : st.avg_sensors[c] = Zero

C9_RecordedAnswered200 ==
    \A t \in Threads :
        (th[t].pc = "idle" /\ th[t].recorded) =>
            /\ th[t].resp.code = 200
            /\ th[t].resp.prediction = predictions_log[th[t].entry]
            /\ th[t].resp.confidence = history[th[t].entry].confidence

\* C10: of two requests answered 200, the one recorded first (the first to
\* enter the critical section) has the smaller request_id; so the ids differ.
C10_RequestIdsOrdered ==
    \A t, u \in Threads :
        ( /\ th[t].pc = "idle" /\ th[t].resp.code = 200 /\ th[t].recorded
          /\ th[u].pc = "idle" /\ th[u].resp.code = 200 /\ th[u].recorded
          /\ th[t].entry < th[u].entry )
            => th[t].resp.request_id < th[u].resp.request_id

\* The events client s holds: those it has received, then those queued for it.
Stream(s) == subs[s].received \o subs[s].inbox
\* The calls of emit made since s connected that were addressed to s (or to
\* every client) and did not raise.
PublishedTo(s) ==
    {i \in (subs[s].joined + 1)..Len(published) :
        published[i].ok /\ published[i].to \in {0, s}}

EmitsOf(name, to) ==
    Cardinality({i \in 1..Len(published) :
                    published[i].event = name /\ published[i].to = to})

\* C12: a request answered 200 by receive_sensor_data or clear_data has made
\* exactly one broadcast, a request answered 400 or 500 none; a client that
\* has connected has been sent exactly one initial_data, a client that has
\* not none, and the statistics an initial_data carries are those of the
\* state at the connect.
C12_OnePublicationEach ==
    /\ \A t \in Threads : th[t].pc = "idle" =>
          /\ (th[t].resp.op \in {"sensor", "clear"} /\ th[t].resp.code = 200)
                => th[t].broadcasts = 1
          /\ th[t].resp.code \in {400, 500} => th[t].broadcasts = 0
    /\ \A s \in Subscribers :
          /\ subs[s].pc \in {"on", "updating"} => EmitsOf("initial_data", s) = 1
          /\ subs[s].pc \in {"off", "priming"} => EmitsOf("initial_data", s) = 0
          /\ \A i \in 1..Len(Stream(s)) :
                Stream(s)[i].event = "initial_data" => ~Stream(s)[i].stale

\* Thread t has classified a reading that is a list of num_sensors numbers.
Classified(t) == th[t].pc # "idle" /\ th[t].body.kind = "list" /\ WellFormed(th[t].body)
\* The value the client sent for MQ7, in tenths.
SentMQ7(body) == body.elems[mq7_index].v

\* C13: the label of a reading of num_sensors numbers is DEGRADED (1) when
\* the MQ7 value sent is at least the threshold 0.7 and FRESH (0) when it is
\* below, whatever the other channels hold.
C13_LabelFromMQ7 ==
    \A t \in Threads : Classified(t) =>
        th[t].prediction = IF SentMQ7(th[t].body) >= MQ7Threshold THEN 1 ELSE 0

Labels == {0, 1, 2}
\* Confidences in [0, 1], in hundredths.
UnitInterval == 0..100

\* C14: every classification recorded (logs, chart, latest_data) or returned
\* in a 200 response has a label in {0 FRESH, 1 DEGRADED, 2 ERROR}, named so
\* by interpret_prediction, and a confidence in [0, 1].
C14_ClassificationInRange ==
    /\ \A j \in 1..Recorded :
          predictions_log[j] \in Labels /\ history[j].confidence \in UnitInterval
    /\ \A j \in 1..Len(chart_data.predictions) :
          /\ chart_data.predictions[j] \in Labels
          /\ chart_data.confidences[j] \in UnitInterval
    /\ Recorded > LastClearMark =>
          /\ latest_data.prediction \in Labels
          /\ latest_data.confidence \in UnitInterval
          /\ latest_data.interpretation \in {"FRESH", "DEGRADED", "ERROR"}
    /\ \A t \in Threads :
          (th[t].pc = "idle" /\ th[t].resp.op = "sensor" /\ th[t].resp.code = 200) =>
              /\ th[t].resp.prediction \in Labels
              /\ th[t].resp.confidence \in UnitInterval

C14_Witness ==
    /\ \E t \in Threads :
          /\ th[t].pc = "idle" /\ th[t].resp.code = 200
          /\ th[t].resp.prediction = 1 /\ th[t].resp.confidence = ConfHigh
    /\ \E j \in 1..Recorded : predictions_log[j] = 0 /\ history[j].confidence = ConfLow

\* C15: two classifications of the same reading agree: any two recorded
\* readings with equal channel values have the same label and the same
\* confidence.
C15_Deterministic ==
    \A j, k \in 1..Recorded :
        sensor_data_log[j] = sensor_data_log[k] =>
            /\ predictions_log[j] = predictions_log[k]
            /\ history[j].confidence = history[k].confidence

\* C16: no collection the processor holds in memory has more than
\* max_data_points entries: the chart series, sensor_data_log and
\* predictions_log.
C16_BoundedMemory ==
    /\ Len(chart_data.timestamps) <= max_data_points
    /\ Len(chart_data.predictions) <= max_data_points
    /\ Len(chart_data.confidences) <= max_data_points
    /\ \A c \in Chan : Len(chart_data.sensor_values[c]) <= max_data_points
    /\ Len(sensor_data_log) <= max_data_points
    /\ Len(predictions_log) <= max_data_points

\* self.statistics after the step.
NextStats == statistics'[Len(statistics')]

\* C17: no step lowers request_count, statistics['total_requests'] or one
\* of the per-label counts.
C17_CountsMonotonic ==
    [][ /\ request_count' >= request_count
        /\ NextStats.total_requests >= CurStats.total_requests
        /\ NextStats.fresh_count >= CurStats.fresh_count
        /\ NextStats.degraded_count >= CurStats.degraded_count
        /\ NextStats.error_count >= CurStats.error_count ]_vars

\* Thread t passes lines 250-255 for its reading in this step.
Saves(t) == th[t].pc = "persist" /\ th'[t].pc = "respond"
\* The row of the reading recorded as entry j of sensor_data_log.
RowOf(j) == csv_row(sensor_data_log[j], predictions_log[j], history[j].confidence)

\* C18: the CSV rows change only when a recorded request passes
\* save_data_to_csv, and then by exactly one row appended, that of the
\* request's own channel values, label and confidence, unless the write
\* fails; every other step, a rejection or a Clear included, leaves the
\* rows as they are; and after any step a request answered 200 whose write
\* did not fail has its row in the file.
C18_CsvAppendOnly ==
    [][ /\ \A t \in Threads : Saves(t) =>
              csv_rows' = IF th'[t].wrote THEN Append(csv_rows, RowOf(th[t].entry))
                                         ELSE csv_rows
        /\ (\A t \in Threads : ~Saves(t)) => csv_rows' = csv_rows
        /\ \A t \in Threads :
              ( /\ th'[t].pc = "idle" /\ th'[t].resp.op = "sensor"
                /\ th'[t].resp.code = 200 /\ th'[t].wrote )
                  => \E i \in DOMAIN csv_rows' : csv_rows'[i] = RowOf(th'[t].entry) ]_vars

C18_Witness ==
    /\ Len(csv_rows) = 2
    /\ csv_rows[1] # csv_rows[2]
    /\ \E t \in Threads : th[t].pc = "idle" /\ th[t].resp.code = 200 /\ th[t].wrote

Busy(t) == th[t].pc # "idle"

\* C19: under fair scheduling every request a thread is serving ends with a
\* response of status 200, 400 or 500, data_lock is released whenever it is
\* held, and no request ends with an error response after it was recorded.
C19_TerminalOutcome ==
    /\ \A t \in Threads :
          Busy(t) ~> (~Busy(t) /\ th[t].resp.code \in {200, 400, 500})
    /\ (data_lock # 0) ~> (data_lock = 0)
    /\ [](\A t \in Threads :
            (~Busy(t) /\ th[t].resp.code \in {400, 500}) => ~th[t].recorded)

\* A body that passes validation and conversion and that run_inference
\* fails to classify (it returns None).
ClassificationFails(body) ==
    /\ body.kind = "list"
    /\ Len(body.elems) = num_sensors
    /\ np_array(body.elems).ok
    /\ run_inference_label(np_array(body.elems)) = NoPrediction

\* C20: a submission whose classification fails is answered 500 in the step
\* that receives it, with request_count, the statistics, chart_data,
\* latest_data, the logs and the CSV rows unchanged and nothing emitted.
C20_FailedClassification ==
    [][\A t \in Threads :
        (Starts(t) /\ ClassificationFails(th'[t].body)) =>
            /\ RejectedWith(t, 500)
            /\ th'[t].broadcasts = 0
            /\ UNCHANGED channel]_vars

C20_Witness ==
    \E t \in Threads :
        /\ ClassificationFails(th[t].body)
        /\ th[t].pc = "idle"
        /\ th[t].resp.code = 500
        /\ Recorded >= 1
        /\ request_count >= 1

\* Thread t runs the body of the with block of receive_sensor_data in this step.
Records(t) == th[t].pc = "record" /\ th'[t].pc = "broadcast"
\* The newest max_data_points entries of q.
Window(q) ==
    IF Len(q) > max_data_points
    THEN SubSeq(q, Len(q) - max_data_points + 1, Len(q)) ELSE q

\* C21: the step in which a request passes the critical section, holding
\* data_lock, appends exactly one entry, its own, at the end of every chart
\* series (the oldest entry leaves a full series), as the next entry in the
\* order of recording; no step other than such a one and a Clear changes a
\* series.
C21_RecordedOnceInOrder ==
    [][ /\ \A t \in Threads : Records(t) =>
              /\ data_lock = t
              /\ th'[t].entry = Recorded + 1
              /\ Recorded' = Recorded + 1
              /\ chart_data'.timestamps = Window(Append(chart_data.timestamps, now'))
              /\ chart_data'.predictions =
                    Window(Append(chart_data.predictions, th[t].prediction))
              /\ chart_data'.confidences =
                    Window(Append(chart_data.confidences, th[t].confidence))
              /\ \A c \in Chan :
                    chart_data'.sensor_values[c] =
                        Window(Append(chart_data.sensor_values[c], th[t].sensor_data.data[c]))
        /\ (\A t \in Threads : ~Records(t) /\ ~Clears(t)) => chart_data' = chart_data ]_vars

\* Two overlapping requests, recorded in the order opposite to their threads.
C21_Witness ==
    /\ th[1].recorded /\ th[2].recorded
    /\ th[2].entry = 1 /\ th[1].entry = 2
    /\ Len(chart_data.predictions) = 2
    /\ chart_data.predictions[1] = th[2].prediction
    /\ chart_data.predictions[2] = th[1].prediction
    /\ th[1].prediction # th[2].prediction

\* Thread t is inside a with self.data_lock block that writes.
InCritical(t) == th[t].pc \in {"record", "clear"}
\* The shared state the lock protects.
protected == <<statistics, latest_data, chart_data>>

\* C22: at most one thread is inside a critical section and it holds
\* data_lock; a step that changes the statistics, latest_data or chart_data
\* is the step of the thread that holds the lock; and while a thread is
\* inside its critical section no other thread changes a shared variable
\* the update reads: the protected state and request_count.
C22_LockedUpdates ==
    [][ /\ \A t, u \in Threads : (InCritical(t) /\ InCritical(u)) => t = u
        /\ \A t \in Threads : InCritical(t) => data_lock = t
        /\ protected' # protected =>
              \E t \in Threads : InCritical(t) /\ data_lock = t /\ th'[t] # th[t]
        /\ \A t \in Threads :
              (InCritical(t) /\ th'[t] = th[t]) =>
                  /\ protected' = protected
                  /\ request_count' = request_count ]_vars

\* Thread t is past its critical section, at the emit, the CSV write or the
\* response.
OutsideLock(t) == th[t].pc \in {"broadcast", "persist", "respond", "clear_broadcast"}

\* C23: a thread that is about to emit to the subscribers or to write its
\* CSV row, after recording or after a Clear, does not hold data_lock.
C23_IOOutsideLock ==
    \A t \in Threads : OutsideLock(t) => data_lock # t

\* A second request is inside the critical section while the first has
\* still to broadcast or to persist.
C23_Witness ==
    \E t, u \in Threads :
        /\ th[t].pc \in {"broadcast", "persist"}
        /\ th[u].pc = "record"
        /\ data_lock = u

\* Thread t serves, or has last served, a POST of a list of values.
Ingesting(t) == th[t].body.kind = "list"

\* C24: the stages of a request come in the order Classified, Recorded,
\* Persisted, Broadcast, Responded: a request that wrote its CSV row was
\* recorded, a request that has broadcast has written its row before, and a
\* request answered 200 was classified, recorded, written and broadcast once.
C24_StageOrder ==
    \A t \in Threads : Ingesting(t) =>
        /\ th[t].recorded => predictions_log[th[t].entry] \in {0, 1}
        /\ th[t].wrote => th[t].recorded
        /\ th[t].broadcasts > 0 => th[t].wrote
        /\ (th[t].pc = "idle" /\ th[t].resp.code = 200) =>
              th[t].recorded /\ th[t].wrote /\ th[t].broadcasts = 1

\* Thread t captures a snapshot in this step.
Captures(t) == th'[t].snap # th[t].snap /\ th'[t].snap.stats_ref # 0

\* C25: a snapshot captured while no Clear has happened has statistics whose
\* total_requests is the sum of the three label counts and the number of
\* readings recorded up to the capture.
C25_SnapshotTotals ==
    [][\A t \in Threads :
        (Captures(t) /\ clear_marks' = <<>>) =>
            LET st == th'[t].snap.stats_seen
            IN  /\ st.total_requests = st.fresh_count + st.degraded_count + st.error_count
                /\ st.total_requests = Len(sensor_data_log')]_vars

\* The arithmetic mean of f over the readings recorded since the last Clear.
MeanSince(f) ==
    IF \E i \in (LastClearMark + 1)..Recorded : f[i] = NaN THEN FracNaN
    ELSE Frac(SumOf(f, Recorded) - SumOf(f, LastClearMark), SinceClear)

\* C26: after a Clear and at least one reading recorded since, avg_confidence
\* and every avg_sensors[c] are the arithmetic means of the readings
\* recorded since that Clear.
C26_MeansRestart ==
    (clear_marks # <<>> /\ SinceClear >= 1) =>
        /\ CurStats.avg_confidence = MeanSince(ConfidenceAt)
        /\ \A c \in Chan : CurStats.avg_sensors[c] = MeanSince(ChannelAt(c))

\* Thread t emits the snapshot of its reading in this step.
Broadcasts(t) == th[t].pc = "broadcast" /\ th'[t].pc = "persist"
\* The snapshot ends with the reading recorded as entry j.
EndsWith(snap, j) ==
    /\ snap.latest_data.timestamp = history[j].timestamp
    /\ snap.latest_data.prediction = predictions_log[j]
    /\ snap.latest_data.confidence = history[j].confidence
    /\ Len(snap.chart_data.timestamps) >= 1
    /\ snap.chart_data.timestamps[Len(snap.chart_data.timestamps)] = history[j].timestamp
    /\ Len(snap.chart_data.predictions) >= 1
    /\ snap.chart_data.predictions[Len(snap.chart_data.predictions)] = predictions_log[j]

\* C27 (as amended): a request emits, after it has left the critical
\* section and without the lock, the snapshot it captured there, whose
\* latest_data and history end with its own reading, whatever was recorded
\* or emitted since; overlapping requests may emit in either order.
C27_EmitsOwnCapture ==
    [][\A t \in Threads : Broadcasts(t) =>
        /\ th[t].recorded
        /\ data_lock # t
        /\ EndsWith(th[t].snap, th[t].entry)]_vars

\* The request recorded second has emitted; the one recorded first has not.
C27_Witness ==
    \E t, u \in Threads :
        /\ th[t].pc = "broadcast" /\ th[t].entry = 1
        /\ th[u].recorded /\ th[u].entry = 2 /\ th[u].broadcasts = 1

\* C27 as stated: when a request emits its snapshot, no request recorded
\* after it has emitted already.
C27_AsStated ==
    [][\A t \in Threads : Broadcasts(t) =>
        \A u \in Threads :
            (th[u].recorded /\ th[u].entry > th[t].entry) => th[u].broadcasts = 0]_vars

\* latest carries the newest entry of the series of chart, if there is one.
Agrees(latest, chart) ==
    LET n == Len(chart.predictions)
    IN  n >= 1 =>
            /\ Len(chart.confidences) = n
            /\ latest.prediction = chart.predictions[n]
            /\ latest.confidence = chart.confidences[n]
            /\ \A c \in Chan :
                  /\ Len(chart.sensor_values[c]) = n
                  /\ latest.sensors[c] = chart.sensor_values[c][n]
\* The placeholder of __init__ and clear_data, whatever its time.
IsPlaceholder(latest) ==
    /\ latest.prediction = 0 /\ latest.confidence = 0
    /\ latest.interpretation = "UNKNOWN"
    /\ \A c \in Chan : latest.sensors[c] = 0

Wrote(t) == th[t].wrote

\* C29: every row of the CSV log is the row of the request that wrote it,
\* with the channel values, label and confidence of that request's history
\* entry, and the rows are in the order in which the requests pass
\* save_data_to_csv: a request that writes puts its row after every row
\* written before, those of the other threads' requests included.
C29_RowsInSaveOrder ==
    [][ /\ \A u \in Threads : (Saves(u) /\ Wrote(u)') =>
              /\ th'[u].row = Len(csv_rows')
              /\ \A i \in DOMAIN csv_rows : csv_rows'[i] = csv_rows[i]
              /\ \A t \in Threads \ {u} : Wrote(t) => th[t].row < th'[u].row
        /\ \A t \in Threads : Wrote(t)' =>
              /\ th'[t].row \in DOMAIN csv_rows'
              /\ csv_rows'[th'[t].row] = RowOf(th[t].entry)' ]_vars

\* Two requests whose rows are in the log in the order opposite to that of
\* their history entries.
C29_Witness ==
    \E t, u \in Threads :
        /\ Wrote(t) /\ Wrote(u)
        /\ th[t].entry < th[u].entry
        /\ th[u].row < th[t].row
        /\ csv_rows[th[t].row] = RowOf(th[t].entry)
        /\ csv_rows[th[u].row] = RowOf(th[u].entry)
        /\ RowOf(th[t].entry) # RowOf(th[u].entry)

\* C29 as stated: of two requests that wrote their rows, the one recorded
\* first has the earlier row.
C29_AsStated ==
    \A t, u \in Threads :
        (Wrote(t) /\ Wrote(u) /\ th[t].entry < th[u].entry) => th[t].row < th[u].row

\* Thread t returns the 200 response of line 258 in this step.
Responds(t) == th[t].pc = "respond" /\ th'[t].pc = "idle"
\* The per-label count of a statistics dict.
CountOf(st, label) ==
    CASE label = 0 -> st.fresh_count
      [] label = 1 -> st.degraded_count
      [] OTHER     -> st.error_count

\* C30: the step that records a request appends its label and confidence to
\* the logs and to the history series and adds one to the count of that
\* label and of no other; the step that writes its CSV row writes that label
\* and confidence; and the step that answers 200 returns the label and
\* confidence of the request's own log entry and of its own CSV row, whatever
\* the other threads have recorded or cleared in between.
C30_ResponseIsOwnClassification ==
    [][\A t \in Threads :
        /\ Records(t) =>
              LET n == Len(chart_data'.predictions)
              IN  /\ th'[t].entry = Len(predictions_log')
                  /\ predictions_log'[th'[t].entry] = th[t].prediction
                  /\ history'[th'[t].entry].confidence = th[t].confidence
                  /\ n >= 1 /\ chart_data'.predictions[n] = th[t].prediction
                  /\ Len(chart_data'.confidences) = n
                  /\ chart_data'.confidences[n] = th[t].confidence
                  /\ \A l \in Labels :
                        CountOf(NextStats, l) =
                            CountOf(CurStats, l) + (IF l = th[t].prediction THEN 1 ELSE 0)
                  /\ th'[t].prediction = th[t].prediction
                  /\ th'[t].confidence = th[t].confidence
        /\ (Saves(t) /\ Wrote(t)') =>
              /\ th'[t].row \in DOMAIN csv_rows'
              /\ csv_rows'[th'[t].row].prediction = predictions_log[th[t].entry]
              /\ csv_rows'[th'[t].row].confidence = history[th[t].entry].confidence
        /\ Responds(t) =>
              /\ th'[t].resp.code = 200
              /\ th'[t].entry = th[t].entry
              /\ th'[t].resp.prediction = predictions_log[th[t].entry]
              /\ th'[t].resp.confidence = history[th[t].entry].confidence
              /\ Wrote(t) =>
                    /\ th[t].row \in DOMAIN csv_rows
                    /\ csv_rows[th[t].row].prediction = th'[t].resp.prediction
                    /\ csv_rows[th[t].row].confidence = th'[t].resp.confidence ]_vars

\* A request has been answered 200 with a label or a confidence that
\* latest_data no longer carries: another request was recorded, or a Clear
\* ran, before the answer.
C30_Witness ==
    \E t \in Threads :
        /\ th[t].pc = "idle" /\ th[t].resp.op = "sensor" /\ th[t].resp.code = 200
        /\ Wrote(t)
        /\ th[t].entry < Len(predictions_log)
        /\ \/ latest_data.prediction # th[t].resp.prediction
           \/ latest_data.confidence # th[t].resp.confidence
        /\ \E u \in Threads \ {t} : th[u].pc \in {"broadcast", "persist", "respond"}
====
